---- MODULE Spec2Model ----
(***************************************************************************)
(* Context-free block verification of parity-bitcoin                       *)
(* (verification/src/verify_block.rs, verification/src/constants.rs).      *)
(*                                                                         *)
(* The state is one IndexedBlock and the outcome of the last call made on  *)
(* a verifier borrowed from it: BlockVerifier::check(), or one of the      *)
(* seven rule checks taken alone.  Transaction indices are 0-based, as in  *)
(* the source; At(txs, i) reads the sequence at a 0-based index.           *)
(***************************************************************************)
EXTENDS Integers, Sequences, FiniteSets

VARIABLES block, call, result, evaluated, history

vars == <<block, call, result, evaluated, history>>

(***************************************************************************)
(* Consensus constants (constants.rs)                                      *)
(***************************************************************************)
MAX_BLOCK_SIZE == 2000000

MAX_BLOCK_SIGOPS == MAX_BLOCK_SIZE \div 50

(***************************************************************************)
(* Bounds of the model                                                     *)
(***************************************************************************)
\* longest transaction list of a block
MaxTxs == 3

\* serialized size of an ordinary transaction of the input set
SmallTxSize == 100

(***************************************************************************)
(* The consumed block representation (chain::IndexedBlock)                 *)
(***************************************************************************)
\* serialized size of a block header
BlockHeaderSize == 80

\* size of the compact integer that prefixes the transaction list
CompactIntegerSize(n) == IF n < 253 THEN 1 ELSE 3

\* serialized size of the largest transaction that fits a block beside one
\* ordinary transaction
LargeTxSize == MAX_BLOCK_SIZE - BlockHeaderSize - CompactIntegerSize(2) - SmallTxSize

\* (serialized size, sigops counted with no output resolution and bip16 off)
\* of the scripts the input transactions carry
Payloads ==
    { [size |-> SmallTxSize, sigops |-> 1],
      [size |-> SmallTxSize, sigops |-> MAX_BLOCK_SIGOPS - 1],
      [size |-> LargeTxSize, sigops |-> 1],
      [size |-> LargeTxSize + 1, sigops |-> 1] }

\* the raw transactions of the input set (chain::Transaction): what the rules
\* read of one, and a lock_time bit that only its identity hash depends on.
\* A coinbase carries the ordinary payload.
RawTransactions ==
    { [is_coinbase |-> cb, size |-> p.size, sigops |-> p.sigops, lock_time |-> lt] :
        cb \in {FALSE}, p \in Payloads, lt \in {0, 1} }
    \cup
    { [is_coinbase |-> TRUE, size |-> SmallTxSize, sigops |-> 1, lock_time |-> lt] :
        lt \in {0, 1} }

\* Transaction::is_coinbase
is_coinbase(raw) == raw.is_coinbase

\* sigops::transaction_sigops(raw, &NoopStore, false)
transaction_sigops(raw) == raw.sigops

\* Transaction::hash, the double hash of the serialization: free of collisions,
\* so a hash is written as the content it commits to, behind a leaf tag
TxHash(raw) ==
    <<1, IF raw.is_coinbase THEN 1 ELSE 0, raw.size, raw.sigops, raw.lock_time>>

\* H256::default()
ZeroHash == <<>>

\* merkle_node_hash(left, right): the double hash of the concatenation, free of
\* collisions, written as the pair it commits to behind a node tag
MerkleNodeHash(left, right) == <<0>> \o left \o right

\* one level of the tree: neighbours are hashed pairwise, the last hash of an
\* odd level with itself
RECURSIVE MerkleLevel(_)
MerkleLevel(hashes) ==
    IF Len(hashes) = 0 THEN <<>>
    ELSE IF Len(hashes) = 1 THEN <<MerkleNodeHash(hashes[1], hashes[1])>>
    ELSE <<MerkleNodeHash(hashes[1], hashes[2])>> \o MerkleLevel(SubSeq(hashes, 3, Len(hashes)))

\* chain::merkle_root over a sequence of hashes
RECURSIVE MerkleRootOf(_)
MerkleRootOf(hashes) ==
    IF Len(hashes) = 0 THEN ZeroHash
    ELSE IF Len(hashes) = 1 THEN hashes[1]
    ELSE MerkleRootOf(MerkleLevel(hashes))

\* IndexedTransaction: a raw transaction paired with its precomputed hash
IndexedTransaction(raw) == [raw |-> raw, hash |-> TxHash(raw)]

IndexedTransactions == { IndexedTransaction(raw) : raw \in RawTransactions }

\* the transaction at a 0-based index
At(txs, i) == txs[i + 1]

\* IndexedBlock::size(): header, transaction count, transactions
BlockSize(b) ==
    LET RECURSIVE Sum(_)
        Sum(txs) == IF txs = <<>> THEN 0 ELSE Head(txs).raw.size + Sum(Tail(txs))
    IN BlockHeaderSize + CompactIntegerSize(Len(b.transactions)) + Sum(b.transactions)

\* IndexedBlock::merkle_root(): recomputed from the current transaction hashes
BlockMerkleRootHash(b) ==
    MerkleRootOf([i \in 1..Len(b.transactions) |-> b.transactions[i].hash])

(***************************************************************************)
(* Error taxonomy (error::Error); arg is the value an error carries        *)
(***************************************************************************)
Ok == [tag |-> "Ok", arg |-> 0]

ErrEmpty == [tag |-> "Empty", arg |-> 0]

ErrCoinbase == [tag |-> "Coinbase", arg |-> 0]

ErrSize(size) == [tag |-> "Size", arg |-> size]

\* Error::Transaction(index, TransactionError::MisplacedCoinbase)
ErrMisplacedCoinbase(index) == [tag |-> "Transaction.MisplacedCoinbase", arg |-> index]

ErrDuplicatedTransactions == [tag |-> "DuplicatedTransactions", arg |-> 0]

ErrMaximumSigops == [tag |-> "MaximumSigops", arg |-> 0]

ErrMerkleRoot == [tag |-> "MerkleRoot", arg |-> 0]

(***************************************************************************)
(* The rule checks (verify_block.rs)                                       *)
(***************************************************************************)
BlockEmptyCheck(b) ==
    IF Len(b.transactions) = 0 THEN ErrEmpty ELSE Ok

\* mutant: the size bound taken as exclusive
BlockSerializedSizeCheck_Exclusive(b, max_size) ==
    LET size == BlockSize(b)
    IN IF size >= max_size THEN ErrSize(size) ELSE Ok

BlockSerializedSizeCheck(b, max_size) ==
    LET size == BlockSize(b)
    IN IF size > max_size THEN ErrSize(size) ELSE Ok

\* mutant: a coinbase anywhere in the block satisfies the rule
BlockCoinbaseCheck_Anywhere(b) ==
    IF \E i \in 1..Len(b.transactions) : is_coinbase(b.transactions[i].raw)
    THEN Ok
    ELSE ErrCoinbase

\* transactions.first().map(is_coinbase).unwrap_or(false)
BlockCoinbaseCheck(b) ==
    IF (IF Len(b.transactions) = 0 THEN FALSE ELSE is_coinbase(At(b.transactions, 0).raw))
    THEN Ok
    ELSE ErrCoinbase

\* Iterator::position over the given 0-based iterator positions, in order:
\* the first one whose transaction is a coinbase, -1 for None
RECURSIVE Position(_, _, _)
Position(txs, skipped, k) ==
    IF skipped + k >= Len(txs) THEN -1
    ELSE IF is_coinbase(At(txs, skipped + k).raw) THEN k
    ELSE Position(txs, skipped, k + 1)

\* mutant: the position in the skipped iterator is reported as it is
BlockExtraCoinbasesCheck_IteratorIndex(b) ==
    LET misplaced == Position(b.transactions, 1, 0)
    IN IF misplaced /= -1 THEN ErrMisplacedCoinbase(misplaced) ELSE Ok

\* mutant: the scan does not skip the first transaction
BlockExtraCoinbasesCheck_NoSkip(b) ==
    LET misplaced == Position(b.transactions, 0, 0)
    IN IF misplaced /= -1 THEN ErrMisplacedCoinbase(misplaced) ELSE Ok

BlockExtraCoinbasesCheck(b) ==
    LET misplaced == Position(b.transactions, 1, 0)
    IN IF misplaced /= -1 THEN ErrMisplacedCoinbase(misplaced + 1) ELSE Ok

\* mutant: only neighbouring transactions are compared
BlockTransactionsUniquenessCheck_Neighbours(b) ==
    IF \E i \in 1..(Len(b.transactions) - 1) : b.transactions[i].hash = b.transactions[i + 1].hash
    THEN ErrDuplicatedTransactions
    ELSE Ok

BlockTransactionsUniquenessCheck(b) ==
    LET hashes == { b.transactions[i].hash : i \in 1..Len(b.transactions) }
    IN IF Cardinality(hashes) = Len(b.transactions) THEN Ok ELSE ErrDuplicatedTransactions

RECURSIVE SumSigops(_)
SumSigops(txs) ==
    IF txs = <<>> THEN 0 ELSE transaction_sigops(Head(txs).raw) + SumSigops(Tail(txs))

\* mutant: each transaction is held to the budget on its own
BlockSigopsCheck_PerTransaction(b, max_sigops) ==
    IF \E i \in 1..Len(b.transactions) : transaction_sigops(b.transactions[i].raw) > max_sigops
    THEN ErrMaximumSigops
    ELSE Ok

BlockSigopsCheck(b, max_sigops) ==
    LET sigops == SumSigops(b.transactions)
    IN IF sigops > max_sigops THEN ErrMaximumSigops ELSE Ok

\* mutant: the two arms of the comparison exchanged
BlockMerkleRootCheck_Inverted(b) ==
    IF BlockMerkleRootHash(b) = b.merkle_root_hash THEN ErrMerkleRoot ELSE Ok

BlockMerkleRootCheck(b) ==
    IF BlockMerkleRootHash(b) = b.merkle_root_hash THEN Ok ELSE ErrMerkleRoot

\* the fields of BlockVerifier, as BlockVerifier::new binds them
RuleCheck(rule, b) ==
    CASE rule = "empty" -> BlockEmptyCheck(b)
      [] rule = "coinbase" -> BlockCoinbaseCheck(b)
      [] rule = "serialized_size" -> BlockSerializedSizeCheck(b, MAX_BLOCK_SIZE)
      [] rule = "extra_coinbases" -> BlockExtraCoinbasesCheck(b)
      [] rule = "transactions_uniqueness" -> BlockTransactionsUniquenessCheck(b)
      [] rule = "sigops" -> BlockSigopsCheck(b, MAX_BLOCK_SIGOPS)
      [] rule = "merkle_root" -> BlockMerkleRootCheck(b)

\* mutant: the size rule tried after the extra-coinbases rule
CheckOrder_SizeAfterExtraCoinbases ==
    <<"empty", "coinbase", "extra_coinbases", "serialized_size",
      "transactions_uniqueness", "sigops", "merkle_root">>

\* mutant: the coinbase rule tried before the emptiness rule
CheckOrder_CoinbaseBeforeEmpty ==
    <<"coinbase", "empty", "serialized_size", "extra_coinbases",
      "transactions_uniqueness", "sigops", "merkle_root">>

\* the order of the try! lines of BlockVerifier::check
CheckOrder ==
    <<"empty", "coinbase", "serialized_size", "extra_coinbases",
      "transactions_uniqueness", "sigops", "merkle_root">>

\* try!(rule.check()) down the given rules: the first error returns at once,
\* Ok(()) after the last rule; evaluated lists the rules that ran
RECURSIVE TryAll(_, _)
TryAll(rules, b) ==
    IF rules = <<>> THEN [result |-> Ok, evaluated |-> <<>>]
    ELSE LET r == RuleCheck(Head(rules), b)
         IN IF r /= Ok
            THEN [result |-> r, evaluated |-> <<Head(rules)>>]
            ELSE LET rest == TryAll(Tail(rules), b)
                 IN [result |-> rest.result,
                     evaluated |-> <<Head(rules)>> \o rest.evaluated]

\* mutant: the last try! line left out
BlockVerifierCheck_NoMerkleRoot(b) == TryAll(SubSeq(CheckOrder, 1, Len(CheckOrder) - 1), b)

BlockVerifierCheck(b) == TryAll(CheckOrder, b)

(***************************************************************************)
(* State machine                                                           *)
(***************************************************************************)
\* transaction lists of at most n transactions of the input set
TxLists(n) == UNION { [1..k -> IndexedTransactions] : k \in 0..n }

\* the same transaction with one bit of its lock_time flipped
FlipBit(tx) ==
    IndexedTransaction([tx.raw EXCEPT !.lock_time = 1 - tx.raw.lock_time])

\* the block with the transaction at 0-based index i replaced
WithTransaction(b, i, tx) ==
    [b EXCEPT !.transactions = [b.transactions EXCEPT ![i + 1] = tx]]

\* A block as the builder hands it over: any transactions, and a header that
\* is merkled over them or still carries the default root.
Init ==
    /\ \E txs \in TxLists(MaxTxs) :
         \E root \in {MerkleRootOf([i \in 1..Len(txs) |-> txs[i].hash]), ZeroHash} :
            block = [transactions |-> txs, merkle_root_hash |-> root]
    /\ call = "none"
    /\ result = Ok
    /\ evaluated = <<>>
    /\ history = "fresh"

\* BlockVerifier::new(&block).check()
Check ==
    /\ call' = "check"
    /\ result' = BlockVerifierCheck(block).result
    /\ evaluated' = BlockVerifierCheck(block).evaluated
    /\ UNCHANGED <<block, history>>

\* one rule of the verifier taken alone: BlockVerifier::new(&block).<rule>.check()
CheckRule(rule) ==
    /\ call' = rule
    /\ result' = RuleCheck(rule, block)
    /\ evaluated' = <<rule>>
    /\ UNCHANGED <<block, history>>

\* a bit of one transaction of a merkled block is flipped; the header stays
Tamper(i) ==
    /\ i < Len(block.transactions)
    /\ BlockMerkleRootHash(block) = block.merkle_root_hash
    /\ block' = WithTransaction(block, i, FlipBit(At(block.transactions, i)))
    /\ history' = "tampered"
    /\ call' = "none"
    /\ result' = Ok
    /\ evaluated' = <<>>

\* the flipped transaction is restored: the block is again the one the header
\* was merkled over
Restore(i) ==
    /\ history = "tampered"
    /\ i < Len(block.transactions)
    /\ LET restored == WithTransaction(block, i, FlipBit(At(block.transactions, i)))
       IN /\ BlockMerkleRootHash(restored) = block.merkle_root_hash
          /\ block' = restored
    /\ history' = "restored"
    /\ call' = "none"
    /\ result' = Ok
    /\ evaluated' = <<>>

\* the builder's merkled_header(): the header is merkled over the transactions
MerkledHeader ==
    /\ BlockMerkleRootHash(block) /= block.merkle_root_hash
    /\ block' = [block EXCEPT !.merkle_root_hash = BlockMerkleRootHash(block)]
    /\ history' = "fresh"
    /\ call' = "none"
    /\ result' = Ok
    /\ evaluated' = <<>>

Next ==
    \/ Check
    \/ \E rule \in { CheckOrder[k] : k \in 1..Len(CheckOrder) } : CheckRule(rule)
    \/ \E i \in 0..(MaxTxs - 1) : Tamper(i)
    \/ \E i \in 0..(MaxTxs - 1) : Restore(i)
    \/ MerkledHeader

Spec == Init /\ [][Next]_vars

(***************************************************************************)
(* Properties                                                              *)
(***************************************************************************)
\* what the properties say of the block under verification
NumTxs == Len(block.transactions)

FirstIsCoinbase == NumTxs > 0 /\ block.transactions[1].raw.is_coinbase

\* the 0-based indices > 0 that hold a coinbase
LaterCoinbases == { i \in 1..(NumTxs - 1) : At(block.transactions, i).raw.is_coinbase }

HasDuplicateHashes ==
    \E i, j \in 1..NumTxs : i < j /\ block.transactions[i].hash = block.transactions[j].hash

TotalSigops == SumSigops(block.transactions)

RootMatches == BlockMerkleRootHash(block) = block.merkle_root_hash

Min(S) == CHOOSE x \in S : \A y \in S : x <= y

Ran(rule) == \E k \in 1..Len(evaluated) : evaluated[k] = rule

\* the order the design states for the seven rules
StatedOrder ==
    <<"empty", "coinbase", "serialized_size", "extra_coinbases",
      "transactions_uniqueness", "sigops", "merkle_root">>

\* the places in the stated order whose rule fails on the block
FailingRules == { k \in 1..Len(StatedOrder) : RuleCheck(StatedOrder[k], block) /= Ok }

\* C1: check() returns Ok(()) if and only if the transaction list is non-empty,
\* transaction 0 is a coinbase, the size is <= MAX_BLOCK_SIZE, no transaction at
\* a position >= 1 is a coinbase, the hashes are pairwise distinct, the summed
\* sigops are <= MAX_BLOCK_SIGOPS and the recomputed Merkle root is the header's.
C1_OkIffAllRulesHold ==
    call = "check" =>
        (result = Ok <=>
            /\ NumTxs > 0
            /\ FirstIsCoinbase
            /\ BlockSize(block) <= MAX_BLOCK_SIZE
            /\ LaterCoinbases = {}
            /\ ~HasDuplicateHashes
            /\ TotalSigops <= MAX_BLOCK_SIGOPS
            /\ RootMatches)

\* a coinbase followed by a non-coinbase transaction, merkled, within both
\* ceilings (the size exactly at its ceiling), is accepted
C1_Witness ==
    /\ call = "check"
    /\ result = Ok
    /\ NumTxs = 2
    /\ BlockSize(block) = MAX_BLOCK_SIZE
    /\ evaluated = StatedOrder

\* C2: check() tries the rules in the order emptiness, coinbase, size, extra
\* coinbases, uniqueness, sigops, Merkle root and stops at the first failure: the
\* error returned is that of the earliest failing rule and no later rule runs;
\* an oversized block with a coinbase first yields Size(observed) and neither
\* the sigops nor the Merkle root rule runs.
C2_FirstFailureInStatedOrder ==
    call = "check" =>
        /\ IF FailingRules = {}
           THEN result = Ok /\ evaluated = StatedOrder
           ELSE /\ result = RuleCheck(StatedOrder[Min(FailingRules)], block)
                /\ evaluated = SubSeq(StatedOrder, 1, Min(FailingRules))
        /\ (FirstIsCoinbase /\ BlockSize(block) > MAX_BLOCK_SIZE) =>
                /\ result = ErrSize(BlockSize(block))
                /\ ~Ran("sigops")
                /\ ~Ran("merkle_root")

\* an oversized block with a coinbase first that also breaks later rules
C2_Witness ==
    /\ call = "check"
    /\ FirstIsCoinbase
    /\ BlockSize(block) > MAX_BLOCK_SIZE
    /\ LaterCoinbases /= {}
    /\ HasDuplicateHashes
    /\ ~RootMatches
    /\ result = ErrSize(BlockSize(block))
    /\ evaluated = <<"empty", "coinbase", "serialized_size">>

\* C3: for a block with no transactions check() returns Error::Empty, before any
\* other rule runs (never Error::Coinbase, though the coinbase rule alone fails).
C3_EmptyBlockYieldsEmpty ==
    (call = "check" /\ NumTxs = 0) =>
        /\ result = ErrEmpty
        /\ evaluated = <<"empty">>
        /\ RuleCheck("coinbase", block) = ErrCoinbase

C3_Witness ==
    /\ call = "check"
    /\ NumTxs = 0
    /\ result = ErrEmpty

\* C4: for a non-empty block whose transaction 0 is not a coinbase check()
\* returns Error::Coinbase, whatever its size, other transactions, hashes,
\* sigops or Merkle root.
C4_FirstNotCoinbaseYieldsCoinbase ==
    (call = "check" /\ NumTxs > 0 /\ ~FirstIsCoinbase) => result = ErrCoinbase

\* such a block that is also oversized, holds a later coinbase and is not merkled
C4_Witness ==
    /\ call = "check"
    /\ NumTxs > 0
    /\ ~FirstIsCoinbase
    /\ BlockSize(block) > MAX_BLOCK_SIZE
    /\ LaterCoinbases /= {}
    /\ ~RootMatches
    /\ result = ErrCoinbase

\* C5 as stated: for every block with a coinbase at some index i > 0 check()
\* yields Transaction(i, MisplacedCoinbase) for the first such i.
C5_AsStated ==
    (call = "check" /\ LaterCoinbases /= {}) =>
        result = ErrMisplacedCoinbase(Min(LaterCoinbases))

\* C5 amended: for every block whose transaction 0 is a coinbase, whose size is
\* <= MAX_BLOCK_SIZE and which has a coinbase at some index i > 0, check() yields
\* Transaction(i, MisplacedCoinbase) for the first such i, left to right.
C5_MisplacedCoinbaseAfterEarlierRules ==
    (/\ call = "check"
     /\ FirstIsCoinbase
     /\ BlockSize(block) <= MAX_BLOCK_SIZE
     /\ LaterCoinbases /= {}) =>
        result = ErrMisplacedCoinbase(Min(LaterCoinbases))

\* coinbases at the indices 1 and 2: the first one is reported
C5_Witness ==
    /\ call = "check"
    /\ FirstIsCoinbase
    /\ LaterCoinbases = {1, 2}
    /\ result = ErrMisplacedCoinbase(1)

\* C6 as stated: for every block whose size S exceeds MAX_BLOCK_SIZE check()
\* yields Size(S), and the size rule succeeds at S = MAX_BLOCK_SIZE.
C6_AsStated ==
    /\ (call = "check" /\ BlockSize(block) > MAX_BLOCK_SIZE) =>
            result = ErrSize(BlockSize(block))
    /\ (call = "serialized_size" /\ BlockSize(block) = MAX_BLOCK_SIZE) => result = Ok

\* C6 amended: for every block whose transaction 0 is a coinbase and whose size
\* S exceeds MAX_BLOCK_SIZE check() yields Size(S); at S = MAX_BLOCK_SIZE the size
\* rule succeeds, and check() does not yield a Size error.
C6_SizeAfterEarlierRules ==
    /\ (call = "check" /\ FirstIsCoinbase /\ BlockSize(block) > MAX_BLOCK_SIZE) =>
            result = ErrSize(BlockSize(block))
    /\ (call = "serialized_size" /\ BlockSize(block) = MAX_BLOCK_SIZE) => result = Ok
    /\ (call = "check" /\ BlockSize(block) = MAX_BLOCK_SIZE) => result.tag /= "Size"

\* one byte over the ceiling
C6_Witness ==
    /\ call = "check"
    /\ FirstIsCoinbase
    /\ BlockSize(block) = MAX_BLOCK_SIZE + 1
    /\ result = ErrSize(MAX_BLOCK_SIZE + 1)

\* C7 as stated: for every block with two transactions of identical hashes, at
\* any two positions, check() yields DuplicatedTransactions.
C7_AsStated ==
    (call = "check" /\ HasDuplicateHashes) => result = ErrDuplicatedTransactions

\* C7 amended: the uniqueness rule yields DuplicatedTransactions for two
\* transactions of identical hashes at any two positions; check() yields it for
\* every such block whose transaction 0 is a coinbase, whose size is
\* <= MAX_BLOCK_SIZE and which has no coinbase at a position >= 1.
C7_DuplicatesAfterEarlierRules ==
    /\ (call = "transactions_uniqueness" /\ HasDuplicateHashes) =>
            result = ErrDuplicatedTransactions
    /\ (/\ call = "check"
        /\ FirstIsCoinbase
        /\ BlockSize(block) <= MAX_BLOCK_SIZE
        /\ LaterCoinbases = {}
        /\ HasDuplicateHashes) =>
            result = ErrDuplicatedTransactions

\* the same transaction twice behind the coinbase
C7_Witness ==
    /\ call = "check"
    /\ FirstIsCoinbase
    /\ NumTxs = 3
    /\ block.transactions[2].hash = block.transactions[3].hash
    /\ result = ErrDuplicatedTransactions

\* C8 as stated: for every block whose summed sigops exceed MAX_BLOCK_SIGOPS
\* check() yields MaximumSigops, and the sigops rule succeeds at exactly
\* MAX_BLOCK_SIGOPS.
C8_AsStated ==
    /\ (call = "check" /\ TotalSigops > MAX_BLOCK_SIGOPS) => result = ErrMaximumSigops
    /\ (call = "sigops" /\ TotalSigops = MAX_BLOCK_SIGOPS) => result = Ok

\* C8 amended: for every block that passes the five earlier rules (transaction 0
\* a coinbase, size <= MAX_BLOCK_SIZE, no later coinbase, distinct hashes) and
\* whose summed sigops exceed MAX_BLOCK_SIGOPS check() yields MaximumSigops; at
\* exactly MAX_BLOCK_SIGOPS the sigops rule succeeds, and check() does not yield
\* MaximumSigops.
C8_SigopsAfterEarlierRules ==
    /\ (/\ call = "check"
        /\ FirstIsCoinbase
        /\ BlockSize(block) <= MAX_BLOCK_SIZE
        /\ LaterCoinbases = {}
        /\ ~HasDuplicateHashes
        /\ TotalSigops > MAX_BLOCK_SIGOPS) =>
            result = ErrMaximumSigops
    /\ (call = "sigops" /\ TotalSigops = MAX_BLOCK_SIGOPS) => result = Ok
    /\ (call = "check" /\ TotalSigops = MAX_BLOCK_SIGOPS) => result.tag /= "MaximumSigops"

\* one operation over the budget, no transaction over it alone
C8_Witness ==
    /\ call = "check"
    /\ TotalSigops = MAX_BLOCK_SIGOPS + 1
    /\ \A i \in 1..NumTxs : block.transactions[i].raw.sigops < MAX_BLOCK_SIGOPS
    /\ result = ErrMaximumSigops

\* C9 as stated: for every block whose recomputed Merkle root differs from the
\* header's check() yields MerkleRoot, and once the transactions are restored so
\* that the roots agree check() yields success.
C9_AsStated ==
    /\ (call = "check" /\ ~RootMatches) => result = ErrMerkleRoot
    /\ (call = "check" /\ history = "restored") => result = Ok

\* C9 amended: for every block that passes the six earlier rules (transaction 0 a
\* coinbase, size <= MAX_BLOCK_SIZE, no later coinbase, distinct hashes, summed
\* sigops <= MAX_BLOCK_SIGOPS), check() yields MerkleRoot when the recomputed
\* root differs from the header's, and success once the transactions are
\* restored so that the two agree.
C9_MerkleRootAfterEarlierRules ==
    (/\ call = "check"
     /\ FirstIsCoinbase
     /\ BlockSize(block) <= MAX_BLOCK_SIZE
     /\ LaterCoinbases = {}
     /\ ~HasDuplicateHashes
     /\ TotalSigops <= MAX_BLOCK_SIGOPS) =>
        /\ ~RootMatches => result = ErrMerkleRoot
        /\ history = "tampered" => result = ErrMerkleRoot
        /\ history = "restored" => RootMatches /\ result = Ok

\* a block whose flipped transaction was restored, checked and accepted
C9_Witness ==
    /\ call = "check"
    /\ history = "restored"
    /\ NumTxs = MaxTxs
    /\ result = Ok

\* C10: the extra-coinbases rule alone returns Ok(()) iff no transaction at a
\* position >= 1 is a coinbase, and otherwise Transaction(k, MisplacedCoinbase)
\* for the smallest 0-based position k >= 1 holding a coinbase; replacing
\* transaction 0, coinbase or not, never changes its result.
C10_ExtraCoinbasesAlone ==
    call = "extra_coinbases" =>
        /\ result = Ok <=> LaterCoinbases = {}
        /\ LaterCoinbases /= {} => result = ErrMisplacedCoinbase(Min(LaterCoinbases))
        /\ \A tx \in IndexedTransactions :
                NumTxs > 0 =>
                    BlockExtraCoinbasesCheck(WithTransaction(block, 0, tx)) = result

\* transaction 0 is no coinbase, the first later coinbase sits at index 2
C10_Witness ==
    /\ call = "extra_coinbases"
    /\ NumTxs = 3
    /\ ~FirstIsCoinbase
    /\ LaterCoinbases = {2}
    /\ result = ErrMisplacedCoinbase(2)

====
